---- MODULE Spec2Model ----
(***************************************************************************)
(* Transcript acquisition pipeline: src/02_get_transcripts.py (upstream    *)
(* transcripts) and src/02b_whisper_transcribe.py (local speech-to-text).  *)
(* Both scripts read the video id column of youtube_videos.parquet, skip   *)
(* the ids already in their own output parquet, process the rest one by    *)
(* one and rewrite their output parquet periodically and at the end.       *)
(*                                                                         *)
(* Python None is modelled as the empty tuple and any other value v of a   *)
(* nullable field as <<v>>. Texts are sequences of one-character strings.  *)
(* A video id is a positive number; NA is a missing id in the input.       *)
(***************************************************************************)
EXTENDS Integers, Sequences, FiniteSets, TLC

VARIABLES
    videos,      \* the video_id column of youtube_videos.parquet
    upstream,    \* per video id: what YouTube, yt-dlp and whisper answer
    asked,       \* ids of changing upstream behaviour already requested once
    tFile,       \* youtube_transcripts.parquet: None, or <<rows>>
    wFile,       \* whisper_transcripts.parquet: None, or <<rows>>
    script,      \* the script of the current process: "02", "02b" or "none"
    pc,          \* "idle", "loop", "done"
    video_ids,   \* main: the ids to iterate over
    existing,    \* main: the output parquet as loaded at start (None, or <<rows>>)
    done_ids,    \* main: the ids of the loaded rows
    rows,        \* main: the results of this run
    idx,         \* main: position of the loop in video_ids (1-based)
    trace,       \* what this run did, in order: fetches, sleeps, writes
    runs,        \* number of processes started so far
    completed,   \* the scripts that have reached their final write at least once
    killed,      \* the scripts a process of which has been killed
    resumed,     \* whether this run started after a completed run of its script
    sel_list,    \* selection alone: the transcript list of a video
    sel_langs,   \* selection alone: the preferred languages
    picked       \* selection alone: None, or <<the result of pick_transcript>>

world == <<videos, upstream>>
parquets == <<tFile, wFile>>
memory == <<video_ids, existing, done_ids, rows, idx>>
selection == <<sel_list, sel_langs, picked>>

vars == <<videos, upstream, asked, tFile, wFile, script, pc, video_ids, existing,
          done_ids, rows, idx, trace, runs, completed, killed, resumed,
          sel_list, sel_langs, picked>>

-----------------------------------------------------------------------------
(* Bounds of the model *)

MaxRuns == 2       \* processes started in one behaviour
MaxTranscripts == 4  \* selection alone: longest transcript list
MaxLangs == 2      \* selection alone: longest list of preferred languages
ShortLen == 3      \* longest input whose items all differ in behaviour
LongLen == 101     \* length of the input that reaches a periodic write of 02

(* Constants of the program *)

MAX_VIDEOS == 10   \* 02b: the cap on the input
FLUSH_02 == 100    \* 02: rows between two periodic writes
FLUSH_02B == 5     \* 02b: rows between two periodic writes

WHISPER_MODEL == "base"

-----------------------------------------------------------------------------
(* Python values *)

None == <<>>
Some(v) == <<v>>
NA == 0

RECURSIVE Join(_, _)
\* sep.join(parts) on texts
Join(parts, sep) ==
    IF parts = <<>> THEN <<>>
    ELSE IF Len(parts) = 1 THEN parts[1]
    ELSE parts[1] \o sep \o Join(Tail(parts), sep)

IsSpace(c) == c \in {" ", "\n", "\t"}

RECURSIVE LStrip(_)
LStrip(s) == IF s # <<>> /\ IsSpace(Head(s)) THEN LStrip(Tail(s)) ELSE s

RECURSIVE RStrip(_)
RStrip(s) ==
    IF s # <<>> /\ IsSpace(s[Len(s)]) THEN RStrip(SubSeq(s, 1, Len(s) - 1)) ELSE s

\* str.strip()
Strip(s) == RStrip(LStrip(s))

\* Series.unique(): first occurrences, in order
Unique(s) ==
    LET keep == {k \in DOMAIN s : \A j \in 1..(k - 1) : s[j] # s[k]}
        nth(p) == CHOOSE k \in keep : Cardinality({j \in keep : j < k}) = p - 1
    IN [p \in 1..Cardinality(keep) |-> s[nth(p)]]

\* Series.dropna()
DropNa(s) == SelectSeq(s, LAMBDA x : x # NA)

\* a plausible slip: the cap taken after the ids of the whisper parquet are
\* left out, so that every run takes the next n ids
Prefix_after_skip(s, n) ==
    LET t == SelectSeq(s, LAMBDA v :
                 wFile = <<>> \/ \A k \in DOMAIN wFile[1] : wFile[1][k].video_id # v)
    IN SubSeq(t, 1, IF Len(t) < n THEN Len(t) ELSE n)

\* seq[:n]
Prefix(s, n) == SubSeq(s, 1, IF Len(s) < n THEN Len(s) ELSE n)

Ids(rs) == {rs[k].video_id : k \in 1..Len(rs)}

\* pd.concat([existing, out_df]) when existing is not None, else out_df
Concat(ex, rs) == IF ex # None THEN ex[1] \o rs ELSE rs

-----------------------------------------------------------------------------
(* The transcript list of a video and the selection policy *)

Transcript(lang, gen) == [language_code |-> lang, is_generated |-> gen]

\* TranscriptList.find_manually_created_transcript([lang]): the transcript, or
\* None for the NoTranscriptFound it raises
find_manually_created_transcript(tl, lang) ==
    LET hits == SelectSeq(tl, LAMBDA t : ~t.is_generated /\ t.language_code = lang)
    IN IF hits = <<>> THEN None ELSE Some(hits[1])

\* TranscriptList.find_generated_transcript([lang])
find_generated_transcript(tl, lang) ==
    LET hits == SelectSeq(tl, LAMBDA t : t.is_generated /\ t.language_code = lang)
    IN IF hits = <<>> THEN None ELSE Some(hits[1])

RECURSIVE FirstFound(_, _, _)
\* the loop "for lang in preferred_langs: try: return find(...) except: pass"
FirstFound(tl, langs, gen) ==
    IF langs = <<>> THEN None
    ELSE LET t == IF gen THEN find_generated_transcript(tl, Head(langs))
                  ELSE find_manually_created_transcript(tl, Head(langs))
         IN IF t # None THEN t ELSE FirstFound(tl, Tail(langs), gen)

\* a plausible slip: only the preferred languages searched
pick_transcript_preferred_only(tl, preferred_langs) ==
    LET m1 == FirstFound(tl, preferred_langs, FALSE)
        a1 == FirstFound(tl, preferred_langs, TRUE)
    IN IF m1 # None THEN [chosen |-> m1, source |-> Some("manual")]
       ELSE IF a1 # None THEN [chosen |-> a1, source |-> Some("auto")]
       ELSE [chosen |-> None, source |-> None]

\* a plausible slip: the two language-independent tiers tried before the
\* generated transcripts of the preferred languages
pick_transcript_any_first(tl, preferred_langs) ==
    LET m1 == FirstFound(tl, preferred_langs, FALSE)
        manuals == SelectSeq(tl, LAMBDA t : ~t.is_generated)
        a1 == FirstFound(tl, preferred_langs, TRUE)
        autos == SelectSeq(tl, LAMBDA t : t.is_generated)
    IN IF m1 # None THEN [chosen |-> m1, source |-> Some("manual")]
       ELSE IF manuals # <<>> THEN [chosen |-> Some(manuals[1]), source |-> Some("manual")]
       ELSE IF a1 # None THEN [chosen |-> a1, source |-> Some("auto")]
       ELSE IF autos # <<>> THEN [chosen |-> Some(autos[1]), source |-> Some("auto")]
       ELSE [chosen |-> None, source |-> None]

pick_transcript(tl, preferred_langs) ==
    LET m1 == FirstFound(tl, preferred_langs, FALSE)
        a1 == FirstFound(tl, preferred_langs, TRUE)
        manuals == SelectSeq(tl, LAMBDA t : ~t.is_generated)
        autos == SelectSeq(tl, LAMBDA t : t.is_generated)
    IN IF m1 # None THEN [chosen |-> m1, source |-> Some("manual")]
       ELSE IF a1 # None THEN [chosen |-> a1, source |-> Some("auto")]
       ELSE IF manuals # <<>> THEN [chosen |-> Some(manuals[1]), source |-> Some("manual")]
       ELSE IF autos # <<>> THEN [chosen |-> Some(autos[1]), source |-> Some("auto")]
       ELSE [chosen |-> None, source |-> None]

-----------------------------------------------------------------------------
(* 02_get_transcripts.py: one video *)

\* What the transcript API answers for one video: list is "ok" or the name of
\* the exception list_transcripts raises, fetch and format likewise for
\* chosen.fetch() and formatter.format_transcript(segments).
YT(list, tlist, fetch, format, segments) ==
    [list |-> list, tlist |-> tlist, fetch |-> fetch, format |-> format,
     segments |-> segments]

Returned(rec, slept) == [raised |-> None, rec |-> Some(rec), slept |-> slept]
Raised(e) == [raised |-> Some(e), rec |-> None, slept |-> FALSE]

\* the dict of the three except clauses
ErrorRow(video_id, e) ==
    [video_id |-> video_id, has_transcript |-> FALSE, language_code |-> None,
     is_generated |-> None, source |-> None, transcript_text |-> None,
     error_type |-> Some(e), error_message |-> Some(e)]

\* TextFormatter.format_transcript: the segment texts joined by newlines
format_transcript(segments) == Join(segments, <<"\n">>)

\* the body of the try block of fetch_one
fetch_one_try(video_id, preferred_langs, yt) ==
    IF yt.list # "ok" THEN Raised(yt.list)
    ELSE LET p == pick_transcript(yt.tlist, preferred_langs)
         IN IF p.chosen = None
            THEN Returned([video_id |-> video_id, has_transcript |-> FALSE,
                           language_code |-> None, is_generated |-> None,
                           source |-> None, transcript_text |-> None,
                           error_type |-> Some("NoTranscriptFound"),
                           error_message |-> Some("No usable transcript found")],
                          FALSE)
            ELSE IF yt.fetch # "ok" THEN Raised(yt.fetch)
            ELSE IF yt.format # "ok" THEN Raised(yt.format)
            ELSE Returned([video_id |-> video_id, has_transcript |-> TRUE,
                           language_code |-> Some(p.chosen[1].language_code),
                           is_generated |-> Some(p.chosen[1].is_generated),
                           source |-> p.source,
                           transcript_text |-> Some(format_transcript(yt.segments)),
                           error_type |-> None, error_message |-> None],
                          TRUE)

\* a plausible slip: no "except Exception" clause after the named ones
fetch_one_named_only(video_id, preferred_langs, yt) ==
    LET t == fetch_one_try(video_id, preferred_langs, yt)
    IN IF t.raised = None THEN t
       ELSE IF t.raised[1] \in {"TooManyRequests", "TranscriptsDisabled",
                                "NoTranscriptFound", "VideoUnavailable"}
            THEN Returned(ErrorRow(video_id, t.raised[1]), FALSE)
       ELSE t

\* a plausible slip: the row of an item without any transcript built like a
\* successful one
fetch_one_none_as_auto(video_id, preferred_langs, yt) ==
    LET t == fetch_one_try(video_id, preferred_langs, yt)
    IN IF t.raised = None
       THEN IF t.rec[1].error_type = Some("NoTranscriptFound")
            THEN Returned([t.rec[1] EXCEPT !.source = Some("auto")], FALSE)
            ELSE t
       ELSE Returned(ErrorRow(video_id, t.raised[1]), FALSE)

\* a plausible slip: the sleep taken after every return of the try block
fetch_one_always_sleeps(video_id, preferred_langs, yt) ==
    LET t == fetch_one_try(video_id, preferred_langs, yt)
    IN IF t.raised = None THEN Returned(t.rec[1], TRUE)
       ELSE Returned(ErrorRow(video_id, t.raised[1]), FALSE)

fetch_one(video_id, preferred_langs, yt) ==
    LET t == fetch_one_try(video_id, preferred_langs, yt)
    IN IF t.raised = None THEN t
       ELSE IF t.raised[1] = "TooManyRequests"
            THEN Returned(ErrorRow(video_id, "TooManyRequests"), FALSE)
       ELSE IF t.raised[1] \in {"TranscriptsDisabled", "NoTranscriptFound",
                                "VideoUnavailable"}
            THEN Returned(ErrorRow(video_id, t.raised[1]), FALSE)
       ELSE Returned(ErrorRow(video_id, t.raised[1]), FALSE)

-----------------------------------------------------------------------------
(* 02b_whisper_transcribe.py: one video *)

\* What yt-dlp and the speech model do for one video: yt_dlp is "ok" or
\* "CalledProcessError", files the extensions found in data/audio afterwards,
\* transcribe "ok" or the exception model.transcribe raises, text and language
\* the entries of its result.
WH(yt_dlp, files, transcribe, text, language) ==
    [yt_dlp |-> yt_dlp, files |-> files, transcribe |-> transcribe,
     text |-> text, language |-> language]

FallbackExts == <<"m4a", "webm", "opus">>

download_audio(video_id, w) ==
    IF w.yt_dlp # "ok" THEN [raised |-> Some(w.yt_dlp), path |-> None]
    ELSE IF "mp3" \in w.files THEN [raised |-> None, path |-> Some(<<video_id, "mp3">>)]
    ELSE LET found == SelectSeq(FallbackExts, LAMBDA x : x \in w.files)
         IN IF found # <<>>
            THEN [raised |-> None, path |-> Some(<<video_id, found[1]>>)]
            ELSE [raised |-> Some("FileNotFoundError"), path |-> None]

WhisperSource == "whisper_" \o WHISPER_MODEL

\* the body of the try block of the loop of main
whisper_try(vid, w) ==
    LET a == download_audio(vid, w)
    IN IF a.raised # None THEN [raised |-> a.raised, rec |-> None]
       ELSE IF w.transcribe # "ok" THEN [raised |-> Some(w.transcribe), rec |-> None]
       ELSE LET text == Strip(IF w.text = None \/ w.text = Some(<<>>) THEN <<>>
                              ELSE w.text[1])
            IN [raised |-> None,
                rec |-> Some([video_id |-> vid,
                              has_transcript |-> (text # <<>>),
                              language_code |-> w.language,
                              source |-> Some(WhisperSource),
                              transcript_text |-> IF text # <<>> THEN Some(text) ELSE None,
                              error_type |-> None, error_message |-> None])]

\* the try/except of the loop of main: the row appended for vid
whisper_one(vid, w) ==
    LET t == whisper_try(vid, w)
    IN IF t.raised = None THEN t
       ELSE [raised |-> None,
             rec |-> Some([video_id |-> vid, has_transcript |-> FALSE,
                           language_code |-> None, source |-> Some(WhisperSource),
                           transcript_text |-> None, error_type |-> t.raised,
                           error_message |-> t.raised])]

-----------------------------------------------------------------------------
(* The inputs: video columns and upstream behaviours *)

Hi == <<"h", "i">>
Hola == <<"h", "o", "l", "a">>

AllFour == <<Transcript("es", FALSE), Transcript("en", TRUE),
             Transcript("es", TRUE), Transcript("en", FALSE)>>

Y_manual_en == YT("ok", AllFour, "ok", "ok", <<Hi, Hi>>)
Y_auto_es == YT("ok", <<Transcript("es", TRUE)>>, "ok", "ok", <<Hola>>)
Y_auto_en == YT("ok", <<Transcript("en", TRUE)>>, "ok", "ok", <<Hi>>)
Y_none == YT("ok", <<>>, "ok", "ok", <<>>)
Y_rate == YT("TooManyRequests", <<>>, "ok", "ok", <<>>)
Y_disabled == YT("TranscriptsDisabled", <<>>, "ok", "ok", <<>>)
Y_unavailable == YT("VideoUnavailable", <<>>, "ok", "ok", <<>>)
Y_not_found == YT("NoTranscriptFound", <<>>, "ok", "ok", <<>>)
Y_connection == YT("ConnectionError", <<>>, "ok", "ok", <<>>)
Y_fetch_rate == YT("ok", <<Transcript("en", FALSE)>>, "TooManyRequests", "ok", <<>>)
Y_format == YT("ok", <<Transcript("en", FALSE)>>, "ok", "KeyError", <<Hi>>)
Y_no_segments == YT("ok", <<Transcript("en", TRUE)>>, "ok", "ok", <<>>)

W_ok == WH("ok", {"mp3"}, "ok", Some(<<" ">> \o Hi \o <<"\n">>), Some("en"))
W_m4a == WH("ok", {"m4a", "opus"}, "ok", Some(Hola), Some("es"))
W_yt_dlp_fails == WH("CalledProcessError", {}, "ok", None, None)
W_no_file == WH("ok", {"wav"}, "ok", None, None)
W_model_fails == WH("ok", {"mp3"}, "RuntimeError", None, None)
W_silent == WH("ok", {"mp3"}, "ok", Some(<<>>), Some("en"))
W_spaces == WH("ok", {"webm"}, "ok", Some(<<" ", "\n">>), Some("en"))
W_no_text == WH("ok", {"mp3"}, "ok", None, None)

\* first: the answer to the first request for the video, later: to any other
Profile(first, later, wh) == [first |-> first, later |-> later, wh |-> wh]

Profiles ==
    << Profile(Y_manual_en, Y_manual_en, W_ok),
       Profile(Y_auto_es, Y_auto_es, W_m4a),
       Profile(Y_rate, Y_auto_en, W_yt_dlp_fails),
       Profile(Y_none, Y_none, W_silent),
       Profile(Y_disabled, Y_disabled, W_ok),
       Profile(Y_unavailable, Y_unavailable, W_yt_dlp_fails),
       Profile(Y_rate, Y_rate, W_no_file),
       Profile(Y_connection, Y_connection, W_model_fails),
       Profile(Y_fetch_rate, Y_fetch_rate, W_no_text),
       Profile(Y_no_segments, Y_no_segments, W_spaces),
       Profile(Y_not_found, Y_not_found, W_ok),
       Profile(Y_format, Y_manual_en, W_m4a) >>

\* upstream = <<first, step>>: video 1 has profile first, each next video
\* the profile step places further in Profiles (cyclically)
ProfileOf(up, id) == Profiles[((up[1] - 1 + up[2] * (id - 1)) % Len(Profiles)) + 1]

Changing(up, id) == ProfileOf(up, id).first # ProfileOf(up, id).later

\* the answer of the transcript API to the next request for id
Answer(up, seen, id) ==
    IF id \in seen THEN ProfileOf(up, id).later ELSE ProfileOf(up, id).first

Range(n) == [k \in 1..n |-> k]

\* a column with a missing id and a repeated one
Messy(n) == <<n, NA>> \o Range(n) \o <<1>>

ShortColumns == {Range(n) : n \in 1..ShortLen} \cup {Messy(ShortLen)}
LongColumns == {Range(MAX_VIDEOS + 1), Range(LongLen)}

\* the profiles of the videos of a long column: all alike
LongFirsts == {1, 4, 7}

-----------------------------------------------------------------------------
(* The two scripts *)

PreferredLangs == <<"en">>
DELAY == 15        \* fetch_one: sleep_s, in hundredths of a second
COOLDOWN == 6000   \* main of 02: the sleep after TooManyRequests, likewise

\* a plausible slip: .unique() left out
load_video_ids_no_unique(column) == DropNa(column)

\* video_ids of main: the distinct ids of the column, in order
load_video_ids(column) == Unique(DropNa(column))

\* a plausible slip: the ids of the loaded rows not used
load_done_nothing(file) == {}

\* done_ids / done of main
load_done(file) == IF file # None THEN Ids(file[1]) ELSE {}

\* a plausible slip: the loaded rows left out of the periodic write
checkpoint_new_only(file, ex, rs, every) ==
    IF Len(rs) > 0 /\ Len(rs) % every = 0 THEN Some(rs) ELSE file

\* a plausible slip: the test written with >= in place of % ... == 0
checkpoint_at_least(file, ex, rs, every) ==
    IF Len(rs) > 0 /\ Len(rs) >= every THEN Some(Concat(ex, rs)) ELSE file

\* the periodic write of main: the file after the test at the end of an iteration
checkpoint(file, ex, rs, every) ==
    IF Len(rs) > 0 /\ Len(rs) % every = 0 THEN Some(Concat(ex, rs)) ELSE file

\* what the spec describes: the buffer emptied when the periodic write is made
after_write_cleared(rs, every) ==
    IF Len(rs) > 0 /\ Len(rs) % every = 0 THEN <<>> ELSE rs

\* rows after the test at the end of an iteration: the body of the if writes
\* the parquet and prints, and leaves the list as it is
after_write(rs, every) == rs

\* a plausible slip: the loaded rows left out of the write
final_write_new_only(ex, rs) == Some(rs)

\* the write after the loop
final_write(ex, rs) == Some(Concat(ex, rs))

\* line 159 of 02, lines 83 and 96 of 02b: rows.append(rec)
\* a plausible slip: the buffer restarted when the upstream throttles
record_restart(rs, rec) ==
    IF rec.error_type = Some("TooManyRequests") THEN <<rec>> ELSE Append(rs, rec)

record(rs, rec) == Append(rs, rec)

\* a plausible slip: the pause taken after every row that carries an error
cooldown_any_error(rec) ==
    IF rec.error_type # None THEN << <<"sleep", COOLDOWN>> >> ELSE <<>>

\* the pause of main of 02 after a row, as the events it adds to the trace
cooldown(rec) ==
    IF rec.error_type = Some("TooManyRequests") THEN << <<"sleep", COOLDOWN>> >> ELSE <<>>

Init ==
    /\ \/ videos \in ShortColumns /\ upstream \in (1..Len(Profiles)) \X (0..(Len(Profiles) - 1))
       \/ videos \in LongColumns /\ upstream \in LongFirsts \X {0}
    /\ asked = {}
    /\ tFile = None
    /\ wFile = None
    /\ script = "none"
    /\ pc = "idle"
    /\ video_ids = <<>>
    /\ existing = None
    /\ done_ids = {}
    /\ rows = <<>>
    /\ idx = 1
    /\ trace = <<>>
    /\ runs = 0
    /\ completed = {}
    /\ killed = {}
    /\ resumed = FALSE
    /\ sel_list = <<>>
    /\ sel_langs = <<>>
    /\ picked = None

\* main of 02_get_transcripts.py up to the loop
Start02 ==
    /\ pc # "loop"
    /\ runs < MaxRuns
    /\ runs' = runs + 1
    /\ script' = "02"
    /\ pc' = "loop"
    /\ video_ids' = load_video_ids(videos)
    /\ existing' = tFile
    /\ done_ids' = load_done(tFile)
    /\ rows' = <<>>
    /\ idx' = 1
    /\ trace' = <<>>
    /\ resumed' = ("02" \in completed)
    /\ UNCHANGED <<world, asked, parquets, completed, killed, selection>>

\* one iteration of the loop of main of 02_get_transcripts.py
Step02 ==
    /\ pc = "loop" /\ script = "02"
    /\ idx <= Len(video_ids)
    /\ LET vid == video_ids[idx]
           r == fetch_one(vid, PreferredLangs, Answer(upstream, asked, vid))
       IN IF vid \in done_ids
          THEN /\ idx' = idx + 1
               /\ UNCHANGED <<asked, tFile, pc, rows, trace>>
          ELSE IF r.raised # None
          THEN \* the exception leaves main: the process ends with a traceback
               /\ pc' = "crashed"
               /\ asked' = IF Changing(upstream, vid) THEN asked \cup {vid} ELSE asked
               /\ trace' = trace \o << <<"fetch", vid>>, <<"raise", r.raised[1]>> >>
               /\ UNCHANGED <<tFile, rows, idx>>
          ELSE LET rec == r.rec[1]
                   rs == record(rows, rec)
                   file == checkpoint(tFile, existing, rs, FLUSH_02)
               IN /\ rows' = after_write(rs, FLUSH_02)
                  /\ asked' = IF Changing(upstream, vid) THEN asked \cup {vid} ELSE asked
                  /\ tFile' = file
                  /\ trace' = trace \o << <<"fetch", vid>> >>
                        \o (IF r.slept THEN << <<"sleep", DELAY>> >> ELSE <<>>)
                        \o << <<"append", vid>> >>
                        \o cooldown(rec)
                        \o (IF file # tFile THEN << <<"write", Len(file[1])>> >> ELSE <<>>)
                  /\ idx' = idx + 1
                  /\ pc' = pc
    /\ UNCHANGED <<world, wFile, script, video_ids, existing, done_ids, runs,
                   completed, killed, resumed, selection>>

\* main of 02_get_transcripts.py after the loop
Finish02 ==
    /\ pc = "loop" /\ script = "02"
    /\ idx > Len(video_ids)
    /\ tFile' = final_write(existing, rows)
    /\ trace' = Append(trace, <<"write", Len(tFile'[1])>>)
    /\ pc' = "done"
    /\ completed' = completed \cup {"02"}
    /\ UNCHANGED <<world, asked, wFile, script, memory, runs, killed, resumed, selection>>

\* main of 02b_whisper_transcribe.py up to the loop
Start02b ==
    /\ pc # "loop"
    /\ runs < MaxRuns
    /\ runs' = runs + 1
    /\ script' = "02b"
    /\ pc' = "loop"
    /\ video_ids' = Prefix(load_video_ids(videos), MAX_VIDEOS)
    /\ existing' = wFile
    /\ done_ids' = load_done(wFile)
    /\ rows' = <<>>
    /\ idx' = 1
    /\ trace' = <<>>
    /\ resumed' = ("02b" \in completed)
    /\ UNCHANGED <<world, asked, parquets, completed, killed, selection>>

\* one iteration of the loop of main of 02b_whisper_transcribe.py
Step02b ==
    /\ pc = "loop" /\ script = "02b"
    /\ idx <= Len(video_ids)
    /\ LET vid == video_ids[idx]
           r == whisper_one(vid, ProfileOf(upstream, vid).wh)
       IN IF vid \in done_ids
          THEN /\ idx' = idx + 1
               /\ UNCHANGED <<wFile, pc, rows, trace>>
          ELSE IF r.raised # None
          THEN \* the exception leaves main: the process ends with a traceback
               /\ pc' = "crashed"
               /\ trace' = trace \o << <<"transcribe", vid>>, <<"raise", r.raised[1]>> >>
               /\ UNCHANGED <<wFile, rows, idx>>
          ELSE LET rs == record(rows, r.rec[1])
                   file == checkpoint(wFile, existing, rs, FLUSH_02B)
               IN /\ rows' = after_write(rs, FLUSH_02B)
                  /\ wFile' = file
                  /\ trace' = trace \o << <<"transcribe", vid>>, <<"append", vid>> >>
                        \o (IF file # wFile THEN << <<"write", Len(file[1])>> >> ELSE <<>>)
                  /\ idx' = idx + 1
                  /\ pc' = pc
    /\ UNCHANGED <<world, asked, tFile, script, video_ids, existing, done_ids, runs,
                   completed, killed, resumed, selection>>

\* main of 02b_whisper_transcribe.py after the loop
Finish02b ==
    /\ pc = "loop" /\ script = "02b"
    /\ idx > Len(video_ids)
    /\ wFile' = final_write(existing, rows)
    /\ trace' = Append(trace, <<"write", Len(wFile'[1])>>)
    /\ pc' = "done"
    /\ completed' = completed \cup {"02b"}
    /\ UNCHANGED <<world, asked, tFile, script, memory, runs, killed, resumed, selection>>

\* the process is killed between two steps: its memory is lost, the files stay
Kill ==
    /\ pc = "loop"
    /\ pc' = "killed"
    /\ killed' = killed \cup {script}
    /\ video_ids' = <<>>
    /\ existing' = None
    /\ done_ids' = {}
    /\ rows' = <<>>
    /\ idx' = 1
    /\ trace' = <<>>
    /\ UNCHANGED <<world, asked, parquets, script, runs, completed, resumed, selection>>

Next == Start02 \/ Step02 \/ Finish02 \/ Start02b \/ Step02b \/ Finish02b \/ Kill

Spec == Init /\ [][Next]_vars

-----------------------------------------------------------------------------
(* The selection policy alone, over every transcript list and language list *)

Langs == {"en", "es", "de"}

SeqsUpTo(S, n) == UNION {[1..k -> S] : k \in 0..n}

\* the library keeps one manual and one generated transcript per language
TranscriptLists ==
    {tl \in SeqsUpTo({Transcript(l, g) : l \in Langs, g \in BOOLEAN}, MaxTranscripts) :
        \A j, k \in DOMAIN tl : j # k => tl[j] # tl[k]}

InitPick ==
    /\ sel_list \in TranscriptLists
    /\ sel_langs \in SeqsUpTo(Langs, MaxLangs)
    /\ picked = None
    /\ videos = <<>> /\ upstream = <<1, 0>>
    /\ asked = {} /\ tFile = None /\ wFile = None
    /\ script = "none" /\ pc = "idle"
    /\ video_ids = <<>> /\ existing = None /\ done_ids = {} /\ rows = <<>> /\ idx = 1
    /\ trace = <<>> /\ runs = 0 /\ completed = {} /\ killed = {} /\ resumed = FALSE

Pick ==
    /\ picked = None
    /\ picked' = Some(pick_transcript(sel_list, sel_langs))
    /\ UNCHANGED <<world, asked, parquets, script, pc, memory, trace, runs, completed,
                   killed, resumed, sel_list, sel_langs>>

NextPick == Pick

SpecPick == InitPick /\ [][NextPick]_vars

Min(S) == CHOOSE x \in S : \A y \in S : x <= y

\* positions in sel_list of the transcripts of kind gen in language l
At(gen, l) ==
    {k \in DOMAIN sel_list :
        sel_list[k].is_generated = gen /\ sel_list[k].language_code = l}

\* positions in sel_langs of the languages that have a transcript of kind gen
Preferred(gen) == {i \in DOMAIN sel_langs : At(gen, sel_langs[i]) # {}}

OfKind(gen) == {k \in DOMAIN sel_list : sel_list[k].is_generated = gen}

\* C4: pick_transcript returns the first match in tier order: a manual
\* transcript in the earliest preferred language that has one, else a generated
\* one in the earliest preferred language that has one, else the first manual
\* transcript, else the first generated one; (None, None) only for a video
\* without any transcript.
C4_TierOrder ==
    picked # None =>
        LET r == picked[1]
        IN /\ IF Preferred(FALSE) # {}
              THEN /\ r.chosen = Some(sel_list[Min(At(FALSE, sel_langs[Min(Preferred(FALSE))]))])
                   /\ r.source = Some("manual")
              ELSE IF Preferred(TRUE) # {}
              THEN /\ r.chosen = Some(sel_list[Min(At(TRUE, sel_langs[Min(Preferred(TRUE))]))])
                   /\ r.source = Some("auto")
              ELSE IF OfKind(FALSE) # {}
              THEN r.chosen = Some(sel_list[Min(OfKind(FALSE))]) /\ r.source = Some("manual")
              ELSE IF OfKind(TRUE) # {}
              THEN r.chosen = Some(sel_list[Min(OfKind(TRUE))]) /\ r.source = Some("auto")
              ELSE r.chosen = None /\ r.source = None
           /\ (r.chosen = None <=> sel_list = <<>>)

\* a list with manual and generated transcripts in the preferred and in another
\* language, the manual preferred one not first, and that one picked
C4_Witness ==
    /\ picked # None
    /\ sel_langs = <<"en">>
    /\ Len(sel_list) = 4
    /\ {sel_list[k] : k \in 1..4} = {Transcript(l, g) : l \in {"en", "es"}, g \in BOOLEAN}
    /\ sel_list[4] = Transcript("en", FALSE)
    /\ picked[1] = [chosen |-> Some(Transcript("en", FALSE)), source |-> Some("manual")]

-----------------------------------------------------------------------------
(* Properties of the two scripts *)

\* the output parquet of the running script
File == IF script = "02" THEN tFile ELSE wFile

\* the positions of the rows of rs for video id
RowsFor(rs, id) == {k \in DOMAIN rs : rs[k].video_id = id}

\* the ids of the input column
InputIds == {videos[k] : k \in DOMAIN videos} \ {NA}

FirstPos(id) == Min({k \in DOMAIN videos : videos[k] = id})

\* fewer than MAX_VIDEOS other ids come first in the column
WithinCap(id) ==
    Cardinality({videos[j] : j \in 1..(FirstPos(id) - 1)} \ {NA}) < MAX_VIDEOS

Fetches == {k \in DOMAIN trace : trace[k][1] = "fetch"}
Pauses == {k \in DOMAIN trace : trace[k] = <<"sleep", COOLDOWN>>}

\* C1: a run of 02 started after a completed run of 02 on the same input
\* leaves the checkpoint as it loaded it, fetches nothing and adds no row.
C1_IdempotentResume ==
    (script = "02" /\ pc = "done" /\ resumed) =>
        /\ tFile = existing
        /\ rows = <<>>
        /\ Fetches = {}

\* a second complete run over three videos, one of them recorded with an error
C1_Witness ==
    /\ script = "02" /\ pc = "done" /\ resumed
    /\ Len(video_ids) = 3
    /\ Ids(tFile[1]) = {1, 2, 3}
    /\ \E k \in DOMAIN tFile[1] : tFile[1][k].error_type # None

\* C2 as stated: after a completed run the checkpoint holds exactly one row
\* for every distinct id of the input.
C2_OneRowPerInputId ==
    pc = "done" =>
        \A id \in InputIds : Cardinality(RowsFor(File[1], id)) = 1

\* C2 amended: after a completed run the checkpoint holds exactly one row for
\* every distinct id of the input that the script iterates over (all of them
\* in 02, the first MAX_VIDEOS in 02b), and no id in two rows.
C2_OneRowPerIteratedId ==
    pc = "done" =>
        /\ \A id \in InputIds :
              (script = "02" \/ WithinCap(id)) => Cardinality(RowsFor(File[1], id)) = 1
        /\ \A j, k \in DOMAIN File[1] :
              File[1][j].video_id = File[1][k].video_id => j = k

\* a completed run that started from a checkpoint with failed rows and added rows
C2_Witness ==
    /\ pc = "done"
    /\ existing # None
    /\ \E k \in DOMAIN existing[1] : existing[1][k].error_type # None
    /\ rows # <<>>
    /\ Cardinality(InputIds) > Len(File[1])

\* C3 as stated: in every row, has_transcript is true exactly when error_type
\* is absent and transcript_text is non-empty, and a row without transcript
\* carries an error_type.
C3_RowInvariant ==
    \A k \in DOMAIN rows :
        LET r == rows[k]
            text == IF r.transcript_text = None THEN <<>> ELSE r.transcript_text[1]
        IN /\ r.has_transcript <=> (r.error_type = None /\ text # <<>>)
           /\ ~r.has_transcript => r.error_type # None

\* the row of video id in the transcript checkpoint
RowOf(id) == tFile[1][Min(RowsFor(tFile[1], id))]

Found(id, source, lang) ==
    /\ RowOf(id).has_transcript
    /\ RowOf(id).source = Some(source)
    /\ RowOf(id).language_code = Some(lang)

\* the first, uninterrupted run of 02 over [A, B, C] = [1, 2, 3] has ended: A
\* has a manual English transcript, B only a generated Spanish one, C answers
\* its first request with TooManyRequests and later ones with a generated
\* English transcript
Scenario ==
    /\ videos = <<1, 2, 3>>
    /\ ProfileOf(upstream, 1).first = Y_manual_en
    /\ ProfileOf(upstream, 2).first = Y_auto_es
    /\ ProfileOf(upstream, 3) = Profile(Y_rate, Y_auto_en, W_yt_dlp_fails)
    /\ script = "02" /\ pc = "done" /\ runs = 1

\* C5 as stated: C ends with a generated English transcript, after one pause
\* between a first and a second attempt at C.
C5_ScenarioAsStated ==
    Scenario =>
        /\ Ids(tFile[1]) = {1, 2, 3} /\ Len(tFile[1]) = 3
        /\ Found(1, "manual", "en")
        /\ Found(2, "auto", "es")
        /\ Found(3, "auto", "en")
        /\ Cardinality(Pauses) = 1
        /\ \E j, k \in Fetches :
              /\ trace[j] = <<"fetch", 3>> /\ trace[k] = <<"fetch", 3>>
              /\ \A p \in Pauses : j < p /\ p < k

\* C5 amended: A and B as stated; C is requested once, recorded as failed with
\* TooManyRequests and without source, language or text; the one pause of the
\* run follows that request and no request follows the pause.
C5_ScenarioAsBuilt ==
    Scenario =>
        /\ Ids(tFile[1]) = {1, 2, 3} /\ Len(tFile[1]) = 3
        /\ Found(1, "manual", "en")
        /\ Found(2, "auto", "es")
        /\ ~RowOf(3).has_transcript
        /\ RowOf(3).error_type = Some("TooManyRequests")
        /\ RowOf(3).source = None
        /\ RowOf(3).language_code = None
        /\ RowOf(3).transcript_text = None
        /\ Cardinality(Pauses) = 1
        /\ Cardinality({k \in Fetches : trace[k] = <<"fetch", 3>>}) = 1
        /\ \A p \in Pauses : \A k \in Fetches : k < p

C5_Witness == Scenario /\ Len(tFile[1]) = 3 /\ Pauses # {}

\* the exception that the answer a of the transcript API makes the try block
\* of fetch_one raise, if any
Failure(a) ==
    IF a.list # "ok" THEN Some(a.list)
    ELSE IF a.tlist = <<>> THEN None
    ELSE IF a.fetch # "ok" THEN Some(a.fetch)
    ELSE IF a.format # "ok" THEN Some(a.format)
    ELSE None

\* likewise for the download and the speech model
WFailure(w) ==
    IF w.yt_dlp # "ok" THEN Some(w.yt_dlp)
    ELSE IF w.files \cap {"mp3", "m4a", "webm", "opus"} = {} THEN Some("FileNotFoundError")
    ELSE IF w.transcribe # "ok" THEN Some(w.transcribe)
    ELSE None

\* the ids of this run's loop so far that were not loaded as done
Attempted == SelectSeq(SubSeq(video_ids, 1, idx - 1), LAMBDA v : v \notin done_ids)

Failed(r, e) == ~r.has_transcript /\ r.error_type = e /\ r.transcript_text = None

\* C6: no failure while processing one item ends the run: every item the loop
\* has passed has its one row, in order, a failed row where the item's
\* processing raised, and the final write holds the loaded rows and all of them.
C6_FailuresBecomeRows ==
    /\ pc # "crashed"
    /\ pc \in {"loop", "done"} =>
          /\ Len(rows) = Len(Attempted)
          /\ \A k \in DOMAIN rows :
                LET r == rows[k]
                    p == ProfileOf(upstream, r.video_id)
                IN /\ r.video_id = Attempted[k]
                   /\ script = "02" =>
                         \E a \in {p.first, p.later} :
                            IF Failure(a) # None THEN Failed(r, Failure(a))
                            ELSE r.error_type \in {None, Some("NoTranscriptFound")}
                   /\ script = "02b" =>
                         IF WFailure(p.wh) # None THEN Failed(r, WFailure(p.wh))
                         ELSE r.error_type = None
    /\ pc = "done" => File = Some(Concat(existing, rows))

\* a completed run of 02 in which a connection error on one item was followed
\* by a transcript for the next
C6_Witness ==
    /\ script = "02" /\ pc = "done"
    /\ \E k \in DOMAIN rows :
          /\ k > 1 /\ k < Len(rows)
          /\ rows[k].error_type = Some("ConnectionError")
          /\ rows[k - 1].has_transcript
          /\ rows[k + 1].has_transcript
          /\ Ids(tFile[1]) = {1, 2, 3}

\* C7 as stated, in part: the speech-to-text path is never taken for a video
\* whose row in the transcript checkpoint has a transcript or records the
\* video as unavailable.
C7_FallbackOnlyWithoutUpstream ==
    (script = "02b" /\ tFile # None) =>
        \A k \in DOMAIN rows :
            \A j \in RowsFor(tFile[1], rows[k].video_id) :
                /\ ~tFile[1][j].has_transcript
                /\ tFile[1][j].error_type # Some("VideoUnavailable")

\* C8: a run of 02 never calls the speech-to-text path, and the row of an item
\* whose transcript list yields nothing in any tier has no transcript, no
\* source and the error type NoTranscriptFound.
C8_FallbackGating ==
    script = "02" =>
        /\ \A k \in DOMAIN trace : trace[k][1] # "transcribe"
        /\ \A k \in DOMAIN rows :
              LET r == rows[k]
                  p == ProfileOf(upstream, r.video_id)
              IN /\ r.source # Some(WhisperSource)
                 /\ (p.first = p.later /\ p.first.list = "ok" /\ p.first.tlist = <<>>) =>
                       /\ ~r.has_transcript
                       /\ r.source = None
                       /\ r.transcript_text = None
                       /\ r.error_type = Some("NoTranscriptFound")

C8_Witness ==
    /\ script = "02" /\ pc = "done" /\ wFile = None
    /\ \E k \in DOMAIN rows :
          /\ ProfileOf(upstream, rows[k].video_id).first = Y_none
          /\ rows[k].error_type = Some("NoTranscriptFound")

Successes(rs) == Cardinality({k \in DOMAIN rs : rs[k].has_transcript})

\* f is the parquet p with rows added after its own, if any
Extends(f, p) ==
    p # None =>
        /\ f # None
        /\ Len(f[1]) >= Len(p[1])
        /\ \A k \in DOMAIN p[1] : f[1][k] = p[1][k]

\* C9: the iteration of 02 that records a TooManyRequests row leaves every
\* earlier row of the run and of the loaded and written checkpoint as it was,
\* and the number of rows with a transcript unchanged.
C9_RateLimitIsolation ==
    [][ ( /\ script = "02" /\ pc = "loop" /\ pc' = "loop"
          /\ rows' # rows
          /\ rows'[Len(rows')].error_type = Some("TooManyRequests") )
        => /\ Len(rows') = Len(rows) + 1
           /\ \A k \in DOMAIN rows : rows'[k] = rows[k]
           /\ Successes(rows') = Successes(rows)
           /\ existing' = existing
           /\ Extends(tFile', tFile) ]_vars

\* a TooManyRequests row recorded after a row with a transcript
C9_Witness ==
    /\ script = "02" /\ pc = "loop"
    /\ Len(rows) >= 2
    /\ rows[Len(rows)].error_type = Some("TooManyRequests")
    /\ rows[1].has_transcript
    /\ trace[Len(trace)] = <<"sleep", COOLDOWN>>

\* C10 as stated: a completed run after a kill leaves exactly one row for
\* every distinct id of the input.
C10_KillResumeAllInputs ==
    (pc = "done" /\ script \in killed) =>
        \A id \in InputIds : Cardinality(RowsFor(File[1], id)) = 1

\* C10 amended: a completed run after a kill leaves exactly one row for every
\* distinct id the script iterates over (all in 02, the first MAX_VIDEOS in
\* 02b) and no id in two rows; a run adds rows only for ids that were not in
\* its parquet when it started; and no step, kill or restart changes or
\* removes a row that is in a parquet.
C10_KillResume ==
    /\ [](/\ (pc = "done" /\ script \in killed) =>
               /\ \A id \in InputIds :
                     (script = "02" \/ WithinCap(id))
                        => Cardinality(RowsFor(File[1], id)) = 1
               /\ \A j, k \in DOMAIN File[1] :
                     File[1][j].video_id = File[1][k].video_id => j = k
          /\ (pc \in {"loop", "done"} /\ existing # None) =>
               Ids(rows) \cap Ids(existing[1]) = {})
    /\ [][Extends(tFile', tFile) /\ Extends(wFile', wFile)]_vars

\* a run killed after a periodic write, and the next run completed with the
\* rest of the rows
C10_Witness ==
    /\ pc = "done" /\ script \in killed
    /\ existing # None /\ existing[1] # <<>>
    /\ rows # <<>>
    /\ File = Some(existing[1] \o rows)

\* the row of the running script's buffer for video id
RowIn(id) == rows[Min(RowsFor(rows, id))]

RateLimited(rec) == rec.error_type = Some("TooManyRequests")

\* C11: in a run of 02 the event after the append of a row is the pause of
\* COOLDOWN exactly when that row is a TooManyRequests row; every such pause
\* comes directly after an append, so before the next fetch; there are as
\* many pauses as TooManyRequests rows; a run of 02b never pauses.
C11_CooldownExactly ==
    /\ script = "02" =>
          /\ \A k \in DOMAIN trace :
                /\ trace[k][1] = "append" =>
                      (RateLimited(RowIn(trace[k][2]))
                          <=> (k < Len(trace) /\ trace[k + 1] = <<"sleep", COOLDOWN>>))
                /\ k \in Pauses => (k > 1 /\ trace[k - 1][1] = "append")
          /\ Cardinality(Pauses)
                = Cardinality({k \in DOMAIN rows : RateLimited(rows[k])})
    /\ script = "02b" => Pauses = {}

\* a run of 02 with a TooManyRequests row followed by the pause and then by
\* the next fetch, a row with another error and a row with a transcript
C11_Witness ==
    /\ script = "02" /\ pc = "loop"
    /\ \E p \in Pauses : \E f \in Fetches : f = p + 1
    /\ \E k \in DOMAIN rows : rows[k].error_type \notin {None, Some("TooManyRequests")}
    /\ \E k \in DOMAIN rows : rows[k].has_transcript

\* the position of id in the list the loop goes through
PosInList(id) == Min({k \in DOMAIN video_ids : video_ids[k] = id})

\* C12: in a run of 02 no id is fetched twice and every fetch that did not
\* end the process left its row; the row after a TooManyRequests row is the
\* row of the next id of the list that was not in the loaded checkpoint; and
\* no id that has a row in the loaded checkpoint is fetched, so a
\* TooManyRequests row that reached the parquet is final.
C12_RateLimitedOnce ==
    (script = "02" /\ pc \in {"loop", "done"}) =>
        /\ \A j, k \in Fetches : trace[j][2] = trace[k][2] => j = k
        /\ \A k \in Fetches : Cardinality(RowsFor(rows, trace[k][2])) = 1
        /\ \A k \in DOMAIN rows :
              (RateLimited(rows[k]) /\ k < Len(rows)) =>
                  /\ PosInList(rows[k + 1].video_id) > PosInList(rows[k].video_id)
                  /\ \A m \in (PosInList(rows[k].video_id) + 1)
                                ..(PosInList(rows[k + 1].video_id) - 1) :
                        video_ids[m] \in done_ids
        /\ existing # None =>
              \A k \in Fetches : RowsFor(existing[1], trace[k][2]) = {}
        /\ pc = "done" =>
              \A k \in DOMAIN rows :
                  RateLimited(rows[k]) => \E m \in DOMAIN tFile[1] : tFile[1][m] = rows[k]

\* a run of 02 that loaded a TooManyRequests row for an id, went past that id
\* without a fetch and fetched another id
C12_Witness ==
    /\ script = "02" /\ pc \in {"loop", "done"}
    /\ existing # None
    /\ \E k \in DOMAIN existing[1] :
          /\ RateLimited(existing[1][k])
          /\ PosInList(existing[1][k].video_id) < idx
    /\ Fetches # {}

\* the interval of the periodic write of the running script
N == IF script = "02" THEN FLUSH_02 ELSE FLUSH_02B

Appends == {k \in DOMAIN trace : trace[k][1] = "append"}
Writes == {k \in DOMAIN trace : trace[k][1] = "write"}

\* a write is made in the iteration of the append at k of the trace
WriteAfter(k) ==
    \E w \in Writes :
        /\ k < w
        /\ \A j \in (k + 1)..(w - 1) :
              trace[j][1] \notin {"fetch", "transcribe", "append"}

\* the rows of this run that are not in the parquet
Absent == {k \in DOMAIN rows : File = None \/ \A m \in DOMAIN File[1] : File[1][m] # rows[k]}

\* C13: while the loop runs, the iteration that appends the c-th row of the
\* run writes the parquet exactly when c is a positive multiple of N, the
\* write holds the loaded rows and the c rows; so between iterations the
\* parquet is the loaded one followed by the first N * (rows \div N) rows of
\* the run and fewer than N rows of the run are not in it.
C13_PeriodicFlush ==
    pc = "loop" =>
        /\ \A k \in Appends :
              LET c == Cardinality({j \in Appends : j <= k})
              IN  /\ (c % N = 0) <=> WriteAfter(k)
                  /\ \A w \in Writes :
                        (k < w /\ \A j \in (k + 1)..(w - 1) : j \notin Appends)
                           => trace[w][2] = Len(Concat(existing, SubSeq(rows, 1, c)))
        /\ Cardinality(Writes) = Len(rows) \div N
        /\ File = IF Len(rows) >= N
                  THEN Some(Concat(existing, SubSeq(rows, 1, N * (Len(rows) \div N))))
                  ELSE existing
        /\ Cardinality(Absent) < N
        /\ Cardinality(Absent) = Len(rows) % N

\* a run of 02b that loaded rows, has just appended its N-th row and written
\* the loaded rows followed by its own
C13_Witness ==
    /\ script = "02b" /\ pc = "loop"
    /\ existing # None /\ existing[1] # <<>>
    /\ Len(rows) = FLUSH_02B
    /\ wFile = Some(existing[1] \o rows)
    /\ trace[Len(trace)][1] = "write"

\* C14 as stated: the buffer never holds more than N rows.
C14_BufferBounded ==
    pc \in {"loop", "done"} => Len(rows) <= N

\* C14 amended: the periodic write leaves the buffer as it is: the buffer
\* holds one row for every id the run has gone through that was not in the
\* loaded checkpoint, in that order, before and after every write, so it is
\* bounded by the length of the list and not by N.
C14_BufferHoldsRun ==
    pc \in {"loop", "done"} =>
        /\ Len(rows) = Len(Attempted)
        /\ \A k \in DOMAIN rows : rows[k].video_id = Attempted[k]
        /\ Len(rows) = Cardinality(Appends)
        /\ Len(rows) <= Len(video_ids)

\* a run of 02b that has made a periodic write and holds more than N rows
C14_Witness ==
    /\ script = "02b" /\ pc = "loop"
    /\ Writes # {}
    /\ Len(rows) > FLUSH_02B

\* C15: while a run goes on no step takes a row out of a parquet or changes
\* one, and the parquet of the run always starts with the rows it loaded; the
\* run ends only when the list is exhausted, and it ends with a write, made
\* whatever the buffer holds, that leaves the parquet equal to the loaded
\* rows followed by all rows of the run.
C15_CheckpointGrows ==
    /\ []((pc \in {"loop", "done"}) =>
            /\ Extends(File, existing)
            /\ pc = "done" =>
                  /\ File = Some(Concat(existing, rows))
                  /\ trace[Len(trace)] = <<"write", Len(Concat(existing, rows))>>)
    /\ [][ /\ pc = "loop" =>
                 /\ Extends(tFile', tFile)
                 /\ Extends(wFile', wFile)
                 /\ File # None => File' # None
           /\ (pc = "loop" /\ pc' = "done") =>
                 /\ idx > Len(video_ids)
                 /\ File' = Some(Concat(existing, rows)) ]_vars

\* a run that loaded rows, found every id done, and made the final write
\* with an empty buffer
C15_Witness ==
    /\ pc = "done"
    /\ existing # None /\ existing[1] # <<>>
    /\ rows = <<>>
    /\ trace = << <<"write", Len(existing[1])>> >>
    /\ File = existing

\* the ids of the rows of the loaded checkpoint
Loaded == IF existing # None THEN Ids(existing[1]) ELSE {}

FetchedIds == {trace[k][2] : k \in Fetches}

\* C16: in a run of 02 the ids fetched so far are, in order and one fetch
\* each, the first ids of the work list, which is the input column without
\* missing ids, repeats and ids that have a row in the loaded checkpoint;
\* when the run is done the whole work list has been fetched; every fetch
\* left one row and no row of the run is for an id of the loaded checkpoint.
C16_WorkList ==
    (script = "02" /\ pc \in {"loop", "done"}) =>
        LET loaded == Loaded
            work == {k \in DOMAIN videos :
                        /\ videos[k] # NA
                        /\ videos[k] \notin loaded
                        /\ \A j \in 1..(k - 1) : videos[j] # videos[k]}
            fetched == SelectSeq(trace, LAMBDA e : e[1] = "fetch")
        IN  /\ Len(fetched) = Len(rows)
            /\ \A n \in DOMAIN rows :
                  /\ fetched[n][2] = rows[n].video_id
                  /\ rows[n].video_id \notin loaded
            /\ Len(rows) <= Cardinality(work)
            /\ pc = "done" => Len(rows) = Cardinality(work)
            /\ \A k \in work :
                  LET n == Cardinality({j \in work : j <= k})
                  IN  n <= Len(rows) => rows[n].video_id = videos[k]

\* a completed run of 02 that loaded rows for some ids of the input and
\* fetched the others
C16_Witness ==
    /\ script = "02" /\ pc = "done"
    /\ Loaded # {}
    /\ FetchedIds # {}
    /\ FetchedIds \cup Loaded = InputIds

\* the events an iteration adds to the trace
NewEvents == SubSeq(trace', Len(trace) + 1, Len(trace'))

\* the step is an iteration of the loop of 02 that fetches
Fetching ==
    /\ script = "02" /\ pc = "loop"
    /\ idx' = idx + 1
    /\ trace' # trace

\* none of the requests made for the item failed: the listing answered, and
\* either it offered nothing to fetch or the fetch answered
NoRequestFailed(yt) ==
    /\ yt.list = "ok"
    /\ (pick_transcript(yt.tlist, PreferredLangs).chosen = None \/ yt.fetch = "ok")

Delays(events) == {k \in DOMAIN events : events[k] = <<"sleep", DELAY>>}

\* C17 as stated: an iteration of 02 sleeps for DELAY exactly when no
\* request of its item failed.
C17_DelayAfterEveryRequest ==
    [][ Fetching =>
          (Delays(NewEvents) # {}
              <=> NoRequestFailed(Answer(upstream, asked, video_ids[idx]))) ]_vars

\* C17 amended: an iteration of 02 sleeps for DELAY exactly when the listing
\* answered, a transcript was chosen, its fetch answered and the formatting
\* went through, that is when the row it records has a transcript; it then
\* sleeps once, between the fetch and the append of the row.
C17_DelayAfterTranscript ==
    [][ Fetching =>
          LET yt == Answer(upstream, asked, video_ids[idx])
              got == /\ yt.list = "ok"
                     /\ pick_transcript(yt.tlist, PreferredLangs).chosen # None
                     /\ yt.fetch = "ok"
                     /\ yt.format = "ok"
          IN  /\ Delays(NewEvents) # {} <=> got
              /\ got <=> rows'[Len(rows')].has_transcript
              /\ Cardinality(Delays(NewEvents)) <= 1
              /\ NewEvents[1] = <<"fetch", video_ids[idx]>>
              /\ got => /\ NewEvents[2] = <<"sleep", DELAY>>
                        /\ NewEvents[3] = <<"append", video_ids[idx]>> ]_vars

\* a run of 02 that slept once, after the fetch of the one transcript it
\* has, and has the row of an item whose listing offered no transcript
C17_Witness ==
    /\ script = "02" /\ pc \in {"loop", "done"}
    /\ \E k \in DOMAIN rows :
          /\ rows[k].has_transcript
          /\ \E f \in Fetches :
                /\ trace[f][2] = rows[k].video_id
                /\ trace[f + 1] = <<"sleep", DELAY>>
    /\ \E k \in DOMAIN rows :
          /\ ProfileOf(upstream, rows[k].video_id).first = Y_none
          /\ rows[k].error_type = Some("NoTranscriptFound")
    /\ Cardinality(Delays(trace)) = 1

Transcribed == {trace[k][2] : k \in {j \in DOMAIN trace : trace[j][1] = "transcribe"}}

\* C18: whatever runs were made, killed or completed, every row of the
\* whisper parquet and every id 02b transcribes is one of the first
\* MAX_VIDEOS distinct ids of the input column; and a run of 02b that loaded
\* rows for all of these transcribes nothing, adds no row and leaves the
\* parquet as it loaded it.
C18_CapBeforeSkip ==
    /\ wFile # None => \A k \in DOMAIN wFile[1] : WithinCap(wFile[1][k].video_id)
    /\ (script = "02b" /\ pc \in {"loop", "done"}) =>
          /\ \A id \in Transcribed : WithinCap(id)
          /\ \A k \in DOMAIN rows : WithinCap(rows[k].video_id)
          /\ (\A id \in InputIds : WithinCap(id) => id \in Loaded) =>
                /\ Transcribed = {}
                /\ rows = <<>>
                /\ wFile = existing

\* a completed run of 02b over more than MAX_VIDEOS ids that loaded rows for
\* the first MAX_VIDEOS and processed nothing
C18_Witness ==
    /\ script = "02b" /\ pc = "done"
    /\ Cardinality(InputIds) > MAX_VIDEOS
    /\ existing # None /\ Len(existing[1]) = MAX_VIDEOS
    /\ Transcribed = {}
    /\ rows = <<>>
    /\ wFile = existing

====
